---- MODULE Spec2Model ----
(***************************************************************************)
(* Model of the ML health-monitoring service of EmergeControlTower:        *)
(*   ml/metrics_collector.py  MetricsCollector  (thread-safe bounded store) *)
(*   ml/anomaly_detector.py   AnomalyDetector   (per-type model lifecycle)  *)
(* Floats are exact rationals [n, d]; the logical clock counts hours.       *)
(***************************************************************************)
EXTENDS Integers, Sequences, FiniteSets, TLC

\* ------------------------------------------------------------------ bounds
NumThreads == 2
MaxScenes == 2
MaxRecordsPerAgent == 2
MaxCalls == 3

MaxTrainCalls == 2
MaxRuns == 2
MaxItems == 1

\* ------------------------------------------------------- program constants
DefaultHours == 24
BaselineHours == 168
MinSamples == 10

Threads == 1..NumThreads
Agents == {"a1", "a2"}
None == "None"
NoThread == 0

VARIABLES
    metrics,      \* self._metrics: agent_slug -> list of MetricRecord (keys present only)
    registered,   \* self._registered_agents
    lock,         \* self._lock: NoThread when free, else the holder
    now,          \* datetime.now(), in hours
    pc,           \* per thread: position inside the operation it runs
    loc,          \* per thread: the operation's arguments and local variables
    hist,         \* history: per agent, the records appended since its last clear
    called,       \* history: every record constructed by record_metric
    everCleared,  \* history: agents clear_agent_metrics was ever called for
    snaps,        \* history: per thread, the store states seen during its export
    calls,        \* number of operations called so far
    callLimit,    \* how many operations may be called (bounds the model)
    lastGet,      \* history: the last get_agent_metrics call that returned
    max_records_per_agent,  \* self.max_records_per_agent
    models,       \* self._models: MetricType -> fitted model (keys present only)
    baselines,    \* self._baselines: MetricType -> baseline dict (keys present only)
    is_trained,   \* self._is_trained: MetricType -> bool
    tpc,          \* the train caller's position
    tl,           \* train's local variables
    pre,          \* history: the detector's maps as they were when train was called
    trainCalls,   \* number of train calls so far
    rpc,          \* a concurrent reader's position inside _detect_single
    rl,           \* the reader's local variables
    out,          \* what the last detect_anomalies / get_suggested_action call returned
    bundle,       \* generate_from_ingredients: the ingredient bundle and the callbacks given
    result,       \* generate_from_ingredients: its IngredientGenerationResult
    tasks,        \* generate_from_ingredients: the position of each gathered coroutine
    vpc           \* generate_from_ingredients: the caller's position

mcVars ==
    <<metrics, registered, lock, now, pc, loc, hist, called, everCleared, snaps, calls,
      callLimit, lastGet, max_records_per_agent>>
adVars == <<models, baselines, is_trained, tpc, tl, pre, trainCalls, rpc, rl, out>>
vaVars == <<bundle, result, tasks, vpc>>
vars == <<mcVars, adVars, vaVars>>

\* ------------------------------------------------------------ MetricRecord
MetricRecord(a, mt, v, unit, ctx, ts) ==
    [agent_slug |-> a, metric_type |-> mt, value |-> v, unit |-> unit,
     context |-> ctx, timestamp |-> ts]

\* context = context or {}
EmptyDict == "{}"
ContextOrEmpty(ctx) == IF ctx = None THEN EmptyDict ELSE ctx

IsoFormatOfNow(ts) == <<"iso", now>>
IsoFormat(ts) == <<"iso", ts>>

RecordDictWithoutUnit(r) ==
    [agent_slug |-> r.agent_slug, metric_type |-> r.metric_type,
     value |-> r.value, unit |-> "", context |-> r.context,
     timestamp |-> IsoFormat(r.timestamp)]
RecordDict(r) ==
    [agent_slug |-> r.agent_slug, metric_type |-> r.metric_type,
     value |-> r.value, unit |-> r.unit, context |-> r.context,
     timestamp |-> IsoFormat(r.timestamp)]

ToDicts(recs) == [i \in 1..Len(recs) |-> RecordDict(recs[i])]

\* ------------------------------------------------------- dict-like helpers
Lookup(m, a) == IF a \in DOMAIN m THEN m[a] ELSE <<>>
Store(m, a, s) == [x \in (DOMAIN m) \cup {a} |-> IF x = a THEN s ELSE m[x]]
RemoveAll(m, a) == <<>>
Remove(m, a) == [x \in (DOMAIN m) \ {a} |-> m[x]]

Range(s) == {s[i] : i \in 1..Len(s)}
Orders(S) == {s \in [1..Cardinality(S) -> S] : Range(s) = S}

SelectNewestFirst(recs, cutoff, mt) ==
    [i \in 1..Len(recs) |-> recs[Len(recs) + 1 - i]]
RECURSIVE SelectRecs(_, _, _)
SelectRecs(recs, cutoff, mt) ==
    IF recs = <<>> THEN <<>>
    ELSE LET r == Head(recs)
             rest == SelectRecs(Tail(recs), cutoff, mt)
         IN IF r.timestamp >= cutoff /\ (mt = None \/ r.metric_type = mt)
            THEN <<r>> \o rest ELSE rest

\* --------------------------------------------------- record_metric's body
RegisterAgent(reg, a) == reg \cup {a}

AppendRecordReplacing(list, rec) == <<rec>>
AppendRecord(list, rec) == Append(list, rec)

TrimKeepsOneMore(list, max) ==
    IF Len(list) > max + 1
    THEN SubSeq(list, Len(list) - max, Len(list)) ELSE list
TrimDropsNewest(list, max) ==
    IF Len(list) > max THEN SubSeq(list, 1, max) ELSE list
Trim(list, max) ==
    IF Len(list) > max
    THEN LET excess == Len(list) - max
         IN SubSeq(list, excess + 1, Len(list))
    ELSE list

LockFree(l) == l = NoThread

\* callers are interchangeable: a call is run by the first thread that is free
FirstIdle(t) == pc[t] = "idle" /\ \A u \in Threads : u < t => pc[u] # "idle"

\* a local variable that holds no object yet
Unset == [unset |-> TRUE]
InitLoc ==
    [agent |-> None, rec |-> Unset, hours |-> 0, cutoff |-> 0, mfilter |-> None,
     filtered |-> <<>>, caller |-> "top", agents |-> <<>>, idx |-> 0,
     all |-> <<>>, result |-> <<>>, count |-> 0, stats |-> Unset,
     types |-> <<>>, summary |-> <<>>]

StoreState == [m |-> metrics, r |-> registered, now |-> now]
InExport(t) == pc[t] \in {"exp_lock", "exp_body", "exp_loop", "exp_done"}
                 \/ loc[t].caller = "exp"

\* the store changed to [m2, r2, n2]: every running export has now seen it
Seen(m2, r2, n2) ==
    [t \in Threads |-> IF InExport(t)
                       THEN snaps[t] \cup {[m |-> m2, r |-> r2, now |-> n2]}
                       ELSE snaps[t]]

NoGet == [valid |-> FALSE]

MCInitCap(limit, cap) ==
    /\ callLimit = limit
    /\ max_records_per_agent = cap
    /\ lastGet = NoGet
    /\ metrics = <<>>
    /\ registered = {}
    /\ lock = NoThread
    /\ now = 0
    /\ pc = [t \in Threads |-> "idle"]
    /\ loc = [t \in Threads |-> InitLoc]
    /\ hist = [a \in Agents |-> <<>>]
    /\ called = {}
    /\ everCleared = {}
    /\ snaps = [t \in Threads |-> {}]
    /\ calls = 0

MCInitWith(limit) == MCInitCap(limit, MaxRecordsPerAgent)

\* ------------------------------------------------------------ record_metric
RecordCall(t, a, mt, v, unit, ctx) ==
    /\ FirstIdle(t)
    /\ calls < callLimit
    /\ calls' = calls + 1
    /\ LET rec == MetricRecord(a, mt, v, unit, ContextOrEmpty(ctx), now)
       IN /\ loc' = [loc EXCEPT ![t] = [InitLoc EXCEPT !.agent = a, !.rec = rec]]
          /\ called' = called \cup {rec}
    /\ now' = now + 1
    /\ pc' = [pc EXCEPT ![t] = "rm_lock"]
    /\ snaps' = Seen(metrics, registered, now + 1)
    /\ UNCHANGED <<metrics, registered, lock, hist, everCleared>>

RmAcquire(t) ==
    /\ pc[t] = "rm_lock"
    /\ LockFree(lock)
    /\ lock' = t
    /\ pc' = [pc EXCEPT ![t] = "rm_body"]
    /\ UNCHANGED <<metrics, registered, now, loc, hist, called, everCleared, snaps, calls>>

RmBody(t) ==
    /\ pc[t] = "rm_body"
    /\ LET a == loc[t].agent
           rec == loc[t].rec
           reg2 == RegisterAgent(registered, a)
           m2 == Store(metrics, a,
                       Trim(AppendRecord(Lookup(metrics, a), rec), max_records_per_agent))
       IN /\ registered' = reg2
          /\ metrics' = m2
          /\ hist' = [hist EXCEPT ![a] = Append(@, rec)]
          /\ snaps' = Seen(m2, reg2, now)
    /\ lock' = NoThread
    /\ pc' = [pc EXCEPT ![t] = "rm_done"]
    /\ UNCHANGED <<now, loc, called, everCleared, calls>>

\* -------------------------------------------------------- get_agent_metrics
GamCall(t, a, hours, mt) ==
    /\ FirstIdle(t)
    /\ calls < callLimit
    /\ calls' = calls + 1
    /\ loc' = [loc EXCEPT ![t] = [InitLoc EXCEPT !.agent = a, !.hours = hours,
                                     !.cutoff = now - hours, !.mfilter = mt]]
    /\ pc' = [pc EXCEPT ![t] = "gam_lock"]
    /\ UNCHANGED <<metrics, registered, lock, now, hist, called, everCleared, snaps>>

GamAcquire(t) ==
    /\ pc[t] = "gam_lock"
    /\ LockFree(lock)
    /\ lock' = t
    /\ pc' = [pc EXCEPT ![t] = "gam_body"]
    /\ UNCHANGED <<metrics, registered, now, loc, hist, called, everCleared, snaps, calls>>

GamBodyCreating(t) ==
    /\ pc[t] = "gam_body"
    /\ loc' = [loc EXCEPT ![t].filtered =
                  SelectRecs(Lookup(metrics, loc[t].agent), loc[t].cutoff, loc[t].mfilter)]
    /\ metrics' = Store(metrics, loc[t].agent, Lookup(metrics, loc[t].agent))
    /\ lock' = NoThread
    /\ pc' = [pc EXCEPT ![t] = "gam_build"]
    /\ UNCHANGED <<registered, now, hist, called, everCleared, snaps, calls>>

GamBody(t) ==
    /\ pc[t] = "gam_body"
    /\ loc' = [loc EXCEPT ![t].filtered =
                  SelectRecs(Lookup(metrics, loc[t].agent), loc[t].cutoff, loc[t].mfilter)]
    /\ lock' = NoThread
    /\ pc' = [pc EXCEPT ![t] = "gam_build"]
    /\ UNCHANGED <<metrics, registered, now, hist, called, everCleared, snaps, calls>>

GamBuild(t) ==
    /\ pc[t] = "gam_build"
    /\ LET dicts == ToDicts(loc[t].filtered)
       IN IF loc[t].caller = "exp"
          THEN /\ loc' = [loc EXCEPT ![t].all = @ \o dicts, ![t].idx = @ + 1,
                                     ![t].filtered = <<>>]
               /\ pc' = [pc EXCEPT ![t] = "exp_loop"]
          ELSE /\ loc' = [loc EXCEPT ![t].result = dicts, ![t].filtered = <<>>]
               /\ pc' = [pc EXCEPT ![t] =
                            CASE loc[t].caller \in {"cb", "sum_cb"} -> "cb_compute"
                              [] loc[t].caller = "sum_recent" -> "sum_entry"
                              [] OTHER -> "gam_done"]
    /\ UNCHANGED <<metrics, registered, lock, now, hist, called, everCleared, snaps, calls>>

\* ------------------------------------------------------ clear_agent_metrics
ClrCall(t, a) ==
    /\ FirstIdle(t)
    /\ calls < callLimit
    /\ calls' = calls + 1
    /\ loc' = [loc EXCEPT ![t] = [InitLoc EXCEPT !.agent = a]]
    /\ pc' = [pc EXCEPT ![t] = "clr_lock"]
    /\ everCleared' = everCleared \cup {a}
    /\ UNCHANGED <<metrics, registered, lock, now, hist, called, snaps>>

ClrAcquire(t) ==
    /\ pc[t] = "clr_lock"
    /\ LockFree(lock)
    /\ lock' = t
    /\ pc' = [pc EXCEPT ![t] = "clr_body"]
    /\ UNCHANGED <<metrics, registered, now, loc, hist, called, everCleared, snaps, calls>>

ClrBody(t) ==
    /\ pc[t] = "clr_body"
    /\ LET a == loc[t].agent
           m2 == Remove(metrics, a)
           reg2 == registered \ {a}
       IN /\ loc' = [loc EXCEPT ![t].count = Len(Lookup(metrics, a))]
          /\ metrics' = m2
          /\ registered' = reg2
          /\ hist' = [hist EXCEPT ![a] = <<>>]
          /\ snaps' = Seen(m2, reg2, now)
    /\ lock' = NoThread
    /\ pc' = [pc EXCEPT ![t] = "clr_done"]
    /\ UNCHANGED <<now, called, everCleared, calls>>

\* ------------------------------------------------------ export_for_training
ExpCall(t, a, hours) ==
    /\ FirstIdle(t)
    /\ calls < callLimit
    /\ calls' = calls + 1
    /\ loc' = [loc EXCEPT ![t] = [InitLoc EXCEPT !.agent = a, !.hours = hours]]
    /\ pc' = [pc EXCEPT ![t] = "exp_lock"]
    /\ snaps' = [snaps EXCEPT ![t] = {StoreState}]
    /\ UNCHANGED <<metrics, registered, lock, now, hist, called, everCleared>>

ExpAcquire(t) ==
    /\ pc[t] = "exp_lock"
    /\ LockFree(lock)
    /\ lock' = t
    /\ pc' = [pc EXCEPT ![t] = "exp_body"]
    /\ UNCHANGED <<metrics, registered, now, loc, hist, called, everCleared, snaps, calls>>

ExpBodyHoldingLock(t) ==
    /\ pc[t] = "exp_body"
    /\ \E order \in (IF loc[t].agent # None THEN {<<loc[t].agent>>}
                     ELSE Orders(registered)) :
          loc' = [loc EXCEPT ![t].agents = order, ![t].idx = 1, ![t].all = <<>>]
    /\ pc' = [pc EXCEPT ![t] = "exp_loop"]
    /\ UNCHANGED <<metrics, registered, lock, now, hist, called, everCleared, snaps,
                   calls>>

\* list(set) yields the set's elements in an unspecified order
ExpBody(t) ==
    /\ pc[t] = "exp_body"
    /\ \E order \in (IF loc[t].agent # None THEN {<<loc[t].agent>>}
                     ELSE Orders(registered)) :
          loc' = [loc EXCEPT ![t].agents = order, ![t].idx = 1, ![t].all = <<>>]
    /\ lock' = NoThread
    /\ pc' = [pc EXCEPT ![t] = "exp_loop"]
    /\ UNCHANGED <<metrics, registered, now, hist, called, everCleared, snaps, calls>>

ExpLoop(t) ==
    /\ pc[t] = "exp_loop"
    /\ IF loc[t].idx <= Len(loc[t].agents)
       THEN /\ loc' = [loc EXCEPT ![t].agent = loc[t].agents[loc[t].idx],
                                  ![t].cutoff = now - loc[t].hours,
                                  ![t].mfilter = None,
                                  ![t].caller = "exp"]
            /\ pc' = [pc EXCEPT ![t] = "gam_lock"]
       ELSE /\ loc' = [loc EXCEPT ![t].result = loc[t].all, ![t].caller = "top"]
            /\ pc' = [pc EXCEPT ![t] = "exp_done"]
    /\ UNCHANGED <<metrics, registered, lock, now, hist, called, everCleared, snaps, calls>>

\* ------------------------------------------------------------------ return
Return(t) ==
    /\ pc[t] \in {"rm_done", "gam_done", "clr_done", "exp_done", "cb_done",
                 "rm_mutated", "gam_mutated", "exp_mutated", "gmt_done", "sum_done",
                 "gas_done"}
    /\ pc' = [pc EXCEPT ![t] = "idle"]
    /\ loc' = [loc EXCEPT ![t] = InitLoc]
    /\ snaps' = [snaps EXCEPT ![t] = {}]
    /\ UNCHANGED <<metrics, registered, lock, now, hist, called, everCleared, calls>>

MCStep ==
    \E t \in Threads :
        \/ \E a \in Agents : RecordCall(t, a, "qa_score", 1, "points", None)
        \/ RmAcquire(t)
        \/ RmBody(t)
        \/ \E a \in {"a1"} : GamCall(t, a, DefaultHours, None)
        \/ GamAcquire(t)
        \/ GamBody(t)
        \/ GamBuild(t)
        \/ \E a \in {"a1"} : ClrCall(t, a)
        \/ ClrAcquire(t)
        \/ ClrBody(t)
        \/ \E a \in {None} : ExpCall(t, a, BaselineHours)
        \/ ExpAcquire(t)
        \/ ExpBody(t)
        \/ ExpLoop(t)
        \/ Return(t)

MCNext ==
    MCStep /\ UNCHANGED <<callLimit, lastGet, max_records_per_agent, adVars, vaVars>>

\* ==================================================== AnomalyDetector
\* ---- floats, as exact rationals n/d with d > 0
Abs(x) == IF x < 0 THEN -x ELSE x
RECURSIVE GCD(_, _)
GCD(a, b) == IF b = 0 THEN a ELSE GCD(b, a % b)
\* float("nan"): every comparison with it is false, every sum and product is nan
NaN == [n |-> 0, d |-> 0]
IsNaN(x) == x.d = 0
Rat(n, d) ==
    IF d = 0 THEN NaN
    ELSE LET g == GCD(Abs(n), d) IN [n |-> n \div g, d |-> d \div g]
Zero == Rat(0, 1)
One == Rat(1, 1)
RAdd(a, b) == Rat(a.n * b.d + b.n * a.d, a.d * b.d)
RSub(a, b) == Rat(a.n * b.d - b.n * a.d, a.d * b.d)
RMul(a, b) == Rat(a.n * b.n, a.d * b.d)
RDivInt(a, k) == Rat(a.n, a.d * k)
RLt(a, b) == a.n * b.d < b.n * a.d
RNeg(a) == [n |-> -a.n, d |-> a.d]
RAbs(a) == [n |-> Abs(a.n), d |-> a.d]
\* np.sqrt of an exact value, kept symbolic
Sqrt(v) == [sqrt_of |-> v]

RECURSIVE RSum(_)
RSum(vs) ==
    IF vs = <<>> THEN Zero
    ELSE IF Len(vs) = 1 THEN vs[1]
    ELSE LET h == Len(vs) \div 2
         IN RAdd(RSum(SubSeq(vs, 1, h)), RSum(SubSeq(vs, h + 1, Len(vs))))
RECURSIVE RMin(_)
RMin(vs) ==
    IF Len(vs) = 1 THEN vs[1]
    ELSE LET m == RMin(Tail(vs)) IN IF RLt(vs[1], m) THEN vs[1] ELSE m
RECURSIVE RMax(_)
RMax(vs) ==
    IF Len(vs) = 1 THEN vs[1]
    ELSE LET m == RMax(Tail(vs)) IN IF RLt(m, vs[1]) THEN vs[1] ELSE m
RECURSIVE Insert(_, _)
Insert(x, s) ==
    IF s = <<>> THEN <<x>>
    ELSE IF RLt(s[1], x) THEN <<s[1]>> \o Insert(x, Tail(s)) ELSE <<x>> \o s
RECURSIVE Sorted(_)
Sorted(vs) == IF vs = <<>> THEN <<>> ELSE Insert(Head(vs), Sorted(Tail(vs)))

Mean(vs) == RDivInt(RSum(vs), Len(vs))
Variance(vs) ==
    LET m == Mean(vs)
    IN RDivInt(RSum([i \in 1..Len(vs) |-> RMul(RSub(vs[i], m), RSub(vs[i], m))]),
               Len(vs))
MedianUnsorted(vs) ==
    LET k == Len(vs)
    IN IF k % 2 = 1 THEN vs[(k + 1) \div 2]
       ELSE RDivInt(RAdd(vs[k \div 2], vs[k \div 2 + 1]), 2)
Median(vs) ==
    LET s == Sorted(vs)
        k == Len(vs)
    IN IF k % 2 = 1 THEN s[(k + 1) \div 2]
       ELSE RDivInt(RAdd(s[k \div 2], s[k \div 2 + 1]), 2)

\* ---- MetricType, SuggestedAction
MetricTypeOrder ==
    <<"qa_score", "api_failure_rate", "response_time", "cost", "throughput">>
MetricTypes == Range(MetricTypeOrder)
IsMetricType(s) == s \in MetricTypes

\* float(metric.get("value", 0)): the values a record may carry, and their parse
NumericStrings == {"0.5", "2.0", "9.0", "nan"}
IsFloat(raw) == raw \in NumericStrings
FloatValue(raw) ==
    IF raw = "nan" THEN NaN
    ELSE IF raw = "0.5" THEN Rat(1, 2)
    ELSE IF raw = "2.0" THEN Rat(2, 1) ELSE Rat(9, 1)
\* float(10**400) raises OverflowError, which is neither ValueError nor TypeError
HugeInts == {"10**400"}
FloatOverflows(raw) == raw \in HugeInts

\* ---- dict helpers for the detector's maps
Put(m, k, v) == [x \in (DOMAIN m) \cup {k} |-> IF x = k THEN v ELSE m[x]]
\* dict.get(k): the value as a set of at most one element
Get(m, k) == IF k \in DOMAIN m THEN {m[k]} ELSE {}

\* ---- train's input: n consecutive records {metric_type: mt, value: v}
Run(mt, v, n) == [metric_type |-> mt, value |-> v, n |-> n]

RECURSIVE Repeat(_, _)
Repeat(x, n) == IF n = 0 THEN <<>> ELSE <<x>> \o Repeat(x, n - 1)

RECURSIVE GroupInto(_, _)
GroupInto(g, batch) ==
    IF batch = <<>> THEN g
    ELSE LET r == Head(batch)
         IN IF IsMetricType(r.metric_type) /\ IsFloat(r.value)
            THEN GroupInto([g EXCEPT ![r.metric_type] =
                               @ \o Repeat(FloatValue(r.value), r.n)], Tail(batch))
            ELSE GroupInto(g, Tail(batch))
GroupMetrics(batch) == GroupInto([mt \in MetricTypes |-> <<>>], batch)
\* lines 108-111: MetricType(...) is evaluated first; the except clause catches
\* ValueError and TypeError only, so float's OverflowError leaves train
GroupRaises(batch) ==
    \E i \in 1..Len(batch) :
        IsMetricType(batch[i].metric_type) /\ FloatOverflows(batch[i].value)

InsufficientAtTen(values) == Len(values) <= MinSamples
InsufficientBelowNine(values) == Len(values) < MinSamples - 1
InsufficientData(values) == Len(values) < MinSamples

HasNaN(values) == \E i \in 1..Len(values) : IsNaN(values[i])

\* np.mean, np.std, np.min, np.max, np.median: each is nan when a sample is nan
Baseline(values) ==
    IF HasNaN(values)
    THEN [mean |-> NaN, std |-> Sqrt(NaN), min |-> NaN, max |-> NaN, median |-> NaN]
    ELSE [mean |-> Mean(values), std |-> Sqrt(Variance(values)),
          min |-> RMin(values), max |-> RMax(values), median |-> Median(values)]

\* IsolationForest.fit validates its input and raises ValueError on a nan sample
FitRaises(values) == HasNaN(values)

\* IsolationForest(contamination, n_estimators, random_state).fit(values):
\* with the seed fixed the fitted model is determined by the training values
FitModel(values) == [fitted_on |-> values]

TlInit ==
    [batch |-> <<>>, grouped |-> [mt \in MetricTypes |-> <<>>], i |-> 0,
     results |-> <<>>, raised |-> {}]
NoPre == [models |-> <<>>, baselines |-> <<>>,
          is_trained |-> [mt \in MetricTypes |-> FALSE]]
RlInit == [mt |-> None, trained |-> FALSE, model |-> {}, baseline |-> {}]
NoOut == [op |-> None]

ADInit ==
    /\ models = <<>>
    /\ baselines = <<>>
    /\ is_trained = [mt \in MetricTypes |-> FALSE]
    /\ tpc = "idle"
    /\ tl = TlInit
    /\ pre = NoPre
    /\ trainCalls = 0
    /\ rpc = "idle"
    /\ rl = RlInit
    /\ out = NoOut

\* ------------------------------------------------- VideoAgent, not called
NoBundle == [scenes |-> 0, voiceoverScript |-> FALSE, on_scene_update |-> FALSE,
             on_voiceover_update |-> FALSE]
NoResult == [status |-> "pending", scene_results |-> <<>>, voiceover_url |-> None,
             voiceover_error |-> None, total_scenes |-> 0, completed_scenes |-> 0,
             failed_scenes |-> 0]
VAInit ==
    /\ bundle = NoBundle
    /\ result = NoResult
    /\ tasks = <<>>
    /\ vpc = "idle"

\* ------------------------------------------------------------------- train
TrainCall(batch) ==
    /\ tpc = "idle"
    /\ out = NoOut
    /\ trainCalls < MaxTrainCalls
    /\ trainCalls' = trainCalls + 1
    /\ pre' = [models |-> models, baselines |-> baselines, is_trained |-> is_trained]
    /\ IF batch = <<>>
       THEN /\ tl' = [TlInit EXCEPT !.results = [mt \in MetricTypes |-> FALSE]]
            /\ tpc' = "done"
       ELSE IF GroupRaises(batch)
       THEN /\ tl' = [TlInit EXCEPT !.batch = batch]
            /\ tpc' = "raised"
       ELSE /\ tl' = [TlInit EXCEPT !.batch = batch,
                                    !.grouped = GroupMetrics(batch), !.i = 1]
            /\ tpc' = "loop"
    /\ UNCHANGED <<models, baselines, is_trained, rpc, rl, out>>

\* lines 117-135: the next metric type; too few samples, or its baseline is stored
TrainLoop ==
    /\ tpc = "loop"
    /\ IF tl.i > Len(MetricTypeOrder)
       THEN /\ tpc' = "done"
            /\ UNCHANGED <<tl, baselines>>
       ELSE LET mt == MetricTypeOrder[tl.i]
                values == tl.grouped[mt]
            IN IF InsufficientData(values)
               THEN /\ tl' = [tl EXCEPT !.results = Put(@, mt, FALSE), !.i = @ + 1]
                    /\ UNCHANGED <<tpc, baselines>>
               ELSE /\ baselines' = Put(baselines, mt, Baseline(values))
                    /\ tpc' = "fit"
                    /\ UNCHANGED tl
    /\ UNCHANGED <<models, is_trained, pre, trainCalls, rpc, rl, out>>

\* lines 137-145 and 155-157: model.fit raises (caught: the type fails), or the
\* fitted model is stored
TrainFit ==
    /\ tpc = "fit"
    /\ LET mt == MetricTypeOrder[tl.i]
       IN IF FitRaises(tl.grouped[mt])
          THEN /\ tl' = [tl EXCEPT !.results = Put(@, mt, FALSE), !.i = @ + 1,
                                   !.raised = @ \cup {mt}]
               /\ tpc' = "loop"
               /\ UNCHANGED models
          ELSE /\ models' = Put(models, mt, FitModel(tl.grouped[mt]))
               /\ tpc' = "mark"
               /\ UNCHANGED tl
    /\ UNCHANGED <<baselines, is_trained, pre, trainCalls, rpc, rl, out>>

\* lines 146-147
TrainMark ==
    /\ tpc = "mark"
    /\ LET mt == MetricTypeOrder[tl.i]
       IN /\ is_trained' = [is_trained EXCEPT ![mt] = TRUE]
          /\ tl' = [tl EXCEPT !.results = Put(@, mt, TRUE), !.i = @ + 1]
    /\ tpc' = "loop"
    /\ UNCHANGED <<models, baselines, pre, trainCalls, rpc, rl, out>>

\* train returns its map, or the exception reaches the caller
TrainReturn ==
    /\ tpc \in {"done", "raised"}
    /\ tpc' = "idle"
    /\ tl' = TlInit
    /\ pre' = NoPre
    /\ UNCHANGED <<models, baselines, is_trained, trainCalls, rpc, rl, out>>

\* ------------------------------- a concurrent reader inside _detect_single
RdCall(mt) ==
    /\ rpc = "idle"
    /\ rl' = [RlInit EXCEPT !.mt = mt]
    /\ rpc' = "read_trained"
    /\ UNCHANGED <<models, baselines, is_trained, tpc, tl, pre, trainCalls, out>>

\* line 197
RdTrained ==
    /\ rpc = "read_trained"
    /\ rl' = [rl EXCEPT !.trained = is_trained[rl.mt]]
    /\ rpc' = IF is_trained[rl.mt] THEN "read_model" ELSE "read_fallback"
    /\ UNCHANGED <<models, baselines, is_trained, tpc, tl, pre, trainCalls, out>>

\* line 198
RdFallback ==
    /\ rpc = "read_fallback"
    /\ rl' = [rl EXCEPT !.baseline = Get(baselines, rl.mt)]
    /\ rpc' = "done"
    /\ UNCHANGED <<models, baselines, is_trained, tpc, tl, pre, trainCalls, out>>

\* line 219
RdModel ==
    /\ rpc = "read_model"
    /\ rl' = [rl EXCEPT !.model = Get(models, rl.mt)]
    /\ rpc' = "read_baseline"
    /\ UNCHANGED <<models, baselines, is_trained, tpc, tl, pre, trainCalls, out>>

\* line 220
RdBaseline ==
    /\ rpc = "read_baseline"
    /\ rl' = [rl EXCEPT !.baseline = Get(baselines, rl.mt)]
    /\ rpc' = "done"
    /\ UNCHANGED <<models, baselines, is_trained, tpc, tl, pre, trainCalls, out>>

RdReturn ==
    /\ rpc = "done"
    /\ rpc' = "idle"
    /\ rl' = RlInit
    /\ UNCHANGED <<models, baselines, is_trained, tpc, tl, pre, trainCalls, out>>

\* ------------------------------------------------------------- detection
METRIC_THRESHOLDS(mt) ==
    CASE mt = "qa_score" ->
            [min |-> Rat(6, 1), max |-> Rat(10, 1), direction |-> "higher_is_better"]
      [] mt = "api_failure_rate" ->
            [min |-> Zero, max |-> Rat(1, 10), direction |-> "lower_is_better"]
      [] mt = "response_time" ->
            [min |-> Zero, max |-> Rat(5000, 1), direction |-> "lower_is_better"]
      [] mt = "cost" ->
            [min |-> Zero, max |-> Rat(100, 1), direction |-> "lower_is_better"]
      [] mt = "throughput" ->
            [min |-> Zero, max |-> Rat(1000, 1), direction |-> "higher_is_better"]

CheckOnlyMax(mt, value) == RLt(METRIC_THRESHOLDS(mt).max, value)
CheckThresholdViolation(mt, value) ==
    LET th == METRIC_THRESHOLDS(mt)
    IN RLt(value, th.min) \/ RLt(th.max, value)

ConfidenceUnclamped(score, baseline) == RMul(RAbs(score), Rat(2, 1))
\* min(1.0, abs(score) / 0.5)
CalculateConfidence(score, baseline) ==
    LET c == RMul(RAbs(score), Rat(2, 1))
    IN IF RLt(One, c) THEN One ELSE c

\* np.clip(score, -1.0, 1.0)
Clip(score) ==
    IF RLt(score, RNeg(One)) THEN RNeg(One)
    ELSE IF RLt(One, score) THEN One ELSE score

\* IsolationForest.predict: -1 where decision_function is negative, else 1
ModelPredict(score) == IF RLt(score, Zero) THEN -1 ELSE 1

ScoreAboveOne(anomaly_score) == RLt(One, anomaly_score)
ScoreIsNormal(anomaly_score) == RLt(Zero, anomaly_score)

\* lines 312-317
QaScoreActionBelowSeven(current_value) ==
    IF RLt(current_value, Rat(7, 1)) THEN "retrain" ELSE "no_action"
QaScoreAction(current_value) ==
    IF RLt(current_value, Rat(6, 1)) THEN "retrain"
    ELSE IF RLt(current_value, Rat(7, 1)) THEN "investigate"
    ELSE "no_action"

\* lines 319-324
ApiFailureActionInclusive(current_value) ==
    IF ~RLt(current_value, Rat(3, 10)) THEN "restart"
    ELSE IF RLt(Rat(15, 100), current_value) THEN "investigate"
    ELSE "no_action"
ApiFailureAction(current_value) ==
    IF RLt(Rat(3, 10), current_value) THEN "restart"
    ELSE IF RLt(Rat(15, 100), current_value) THEN "investigate"
    ELSE "no_action"

\* lines 326-333
ResponseTimeActionNoCeiling(current_value, expected_value) ==
    IF RLt(RMul(expected_value, Rat(3, 1)), current_value) THEN "scale_up"
    ELSE IF RLt(RMul(expected_value, Rat(3, 2)), current_value) THEN "investigate"
    ELSE IF RLt(current_value, RMul(expected_value, Rat(3, 10))) THEN "scale_down"
    ELSE "no_action"
ResponseTimeAction(current_value, expected_value) ==
    IF RLt(RMul(expected_value, Rat(3, 1)), current_value) THEN "scale_up"
    ELSE IF RLt(RMul(expected_value, Rat(3, 2)), current_value) THEN "investigate"
    ELSE IF RLt(current_value, RMul(expected_value, Rat(3, 10)))
            /\ RLt(current_value, Rat(100, 1))
         THEN "scale_down"
    ELSE "no_action"

\* lines 335-340
CostAction(current_value, expected_value) ==
    IF RLt(RMul(expected_value, Rat(2, 1)), current_value) THEN "investigate"
    ELSE IF RLt(current_value, RMul(expected_value, Rat(3, 10))) THEN "scale_down"
    ELSE "no_action"

\* lines 342-347
ThroughputActionSwapped(current_value, expected_value) ==
    IF RLt(RMul(expected_value, Rat(2, 1)), current_value) THEN "investigate"
    ELSE IF RLt(current_value, RMul(expected_value, Rat(1, 2))) THEN "scale_up"
    ELSE "no_action"
ThroughputAction(current_value, expected_value) ==
    IF RLt(current_value, RMul(expected_value, Rat(1, 2))) THEN "scale_up"
    ELSE IF RLt(RMul(expected_value, Rat(2, 1)), current_value) THEN "investigate"
    ELSE "no_action"

GetSuggestedAction(metric_type, anomaly_score, current_value, expected_value) ==
    IF ScoreIsNormal(anomaly_score) THEN "no_action"
    ELSE IF ~IsMetricType(metric_type) THEN "investigate"
    ELSE CASE metric_type = "qa_score" -> QaScoreAction(current_value)
           [] metric_type = "api_failure_rate" -> ApiFailureAction(current_value)
           [] metric_type = "response_time" ->
                ResponseTimeAction(current_value, expected_value)
           [] metric_type = "cost" -> CostAction(current_value, expected_value)
           [] metric_type = "throughput" ->
                ThroughputAction(current_value, expected_value)

AnomalyResult(mt, value, expected, score, isa, action, conf, ctx) ==
    [metric_type |-> mt, current_value |-> value, expected_value |-> expected,
     anomaly_score |-> score, is_anomaly |-> isa, suggested_action |-> action,
     confidence |-> conf, context |-> ctx]

\* _detect_single; score is what the fitted model's decision_function returns
DetectSingle(mt, value, context, score) ==
    IF ~is_trained[mt]
    THEN LET b == Get(baselines, mt)
             expected_value == IF b = {} THEN Zero ELSE (CHOOSE x \in b : TRUE).mean
             is_anomaly == CheckThresholdViolation(mt, value)
             anomaly_score == IF is_anomaly THEN RNeg(One) ELSE One
         IN AnomalyResult(mt, value, expected_value, anomaly_score, is_anomaly,
                GetSuggestedAction(mt, anomaly_score, value, expected_value),
                Rat(1, 2), context)
    ELSE LET baseline == baselines[mt]
             anomaly_score == Clip(score)
             is_anomaly == ModelPredict(score) = -1
             expected_value == baseline.mean
         IN AnomalyResult(mt, value, expected_value, anomaly_score, is_anomaly,
                GetSuggestedAction(mt, anomaly_score, value, expected_value),
                CalculateConfidence(score, baseline), context)

\* model.predict validates its input and raises ValueError on a nan value
PredictRaises(mt, value) == is_trained[mt] /\ IsNaN(value)

Item(mt, v, ctx) == [metric_type |-> mt, value |-> v, context |-> ctx]

\* lines 175-182: as in train, float's OverflowError is not caught
DetectRaises(items) ==
    \E i \in 1..Len(items) :
        IsMetricType(items[i].metric_type) /\ FloatOverflows(items[i].value)

RECURSIVE DetectAll(_, _)
DetectAll(items, scores) ==
    IF items = <<>> THEN <<>>
    ELSE LET it == Head(items)
             rest == DetectAll(Tail(items), Tail(scores))
         IN IF /\ IsMetricType(it.metric_type) /\ IsFloat(it.value)
               /\ ~PredictRaises(it.metric_type, FloatValue(it.value))
            THEN <<DetectSingle(it.metric_type, FloatValue(it.value), it.context,
                                Head(scores))>> \o rest
            ELSE rest

\* ---- inputs
Scores == {Rat(-3, 2), Rat(-1, 5), Zero, Rat(1, 5), Rat(3, 2)}
MetricStrings == MetricTypes \cup {"bogus"}
RawValues == NumericStrings \cup {"abc"} \cup HugeInts
FloatChoices == {Zero, Rat(2, 1), Rat(9, 1)}
\* values on, between and beyond the thresholds of the remediation table
TableFloats ==
    {Rat(-20, 1), Rat(-10, 1), Zero, Rat(1, 10), Rat(15, 100), Rat(1, 5),
     Rat(3, 10), Rat(1, 2), Rat(2, 1), Rat(3, 1), Rat(6, 1), Rat(13, 2),
     Rat(7, 1), Rat(9, 1), Rat(50, 1), Rat(150, 1), Rat(1000, 1), NaN}
Items == {Item(mt, v, "ctx") : mt \in MetricStrings, v \in RawValues}
ItemBatches == UNION {[1..k -> Items] : k \in 1..MaxItems}

\* lines 219-224: the model is asked for a score only for a well-formed item
\* of a trained type
ReachesModel(it) ==
    /\ IsMetricType(it.metric_type) /\ IsFloat(it.value)
    /\ is_trained[it.metric_type]
    /\ ~PredictRaises(it.metric_type, FloatValue(it.value))
\* the scores the model returns; the entry of an item that does not reach the
\* model is never read and is kept at zero
ScoreVectors(items) ==
    {f \in [1..Len(items) -> Scores] :
        \A i \in 1..Len(items) : ~ReachesModel(items[i]) => f[i] = Zero}

\* detect_anomalies, called between train calls by the one scheduler
DetectCall(items) ==
    /\ tpc = "idle"
    /\ out = NoOut
    /\ \E scores \in ScoreVectors(items) :
          out' = IF DetectRaises(items)
                 THEN [op |-> "detect_raised", items |-> items]
                 ELSE [op |-> "detect", items |-> items, scores |-> scores,
                       results |-> DetectAll(items, scores)]
    /\ UNCHANGED <<models, baselines, is_trained, tpc, tl, pre, trainCalls, rpc, rl>>

\* get_suggested_action, called directly
SuggestCall(metric_type, anomaly_score, current_value, expected_value) ==
    /\ tpc = "idle"
    /\ out = NoOut
    /\ out' = [op |-> "suggest", metric_type |-> metric_type,
               anomaly_score |-> anomaly_score, current_value |-> current_value,
               expected_value |-> expected_value,
               action |-> GetSuggestedAction(metric_type, anomaly_score,
                                             current_value, expected_value)]
    /\ UNCHANGED <<models, baselines, is_trained, tpc, tl, pre, trainCalls, rpc, rl>>

\* the caller takes the returned value
OutReturn ==
    /\ out # NoOut
    /\ out' = NoOut
    /\ UNCHANGED <<models, baselines, is_trained, tpc, tl, pre, trainCalls, rpc, rl>>

\* get_baseline, is_trained
GetBaseline(mt) == Get(baselines, mt)
IsTrained(mt) == is_trained[mt]


\* ---- the batches train is called with
RunChoices ==
    <<Run("qa_score", "9.0", 10), Run("qa_score", "2.0", 10), Run("qa_score", "9.0", 9),
      Run("qa_score", "abc", 1), Run("qa_score", "nan", 1), Run("cost", "9.0", 10),
      Run("cost", "10**400", 1), Run("bogus", "9.0", 10)>>
\* a batch is up to MaxRuns runs; runs are taken in the order of RunChoices
Batches ==
    {[i \in 1..Len(ix) |-> RunChoices[ix[i]]] :
        ix \in {f \in UNION {[1..k -> 1..Len(RunChoices)] : k \in 0..MaxRuns} :
                    \A i \in 1..(Len(f) - 1) : f[i] <= f[i + 1]}}

TrainSteps == TrainLoop \/ TrainFit \/ TrainMark \/ TrainReturn

\* a single scheduler calling train, and detect_anomalies between the calls
TrainNext ==
    /\ \/ \E batch \in Batches : TrainCall(batch)
       \/ TrainSteps
       \/ \E it \in {Item("qa_score", "2.0", "ctx"), Item("cost", "9.0", "ctx")} :
             DetectCall(<<it>>)
       \/ OutReturn
    /\ UNCHANGED <<mcVars, vaVars>>

\* train running beside a reader
ConcNext ==
    /\ \/ \E batch \in Batches : TrainCall(batch)
       \/ TrainSteps
       \/ \E mt \in {"qa_score", "cost"} : RdCall(mt)
       \/ RdTrained \/ RdFallback \/ RdModel \/ RdBaseline \/ RdReturn
    /\ UNCHANGED <<mcVars, vaVars>>

\* detection and the remediation policy over a detector trained on few batches
DetectBatches ==
    {<<>>, <<Run("qa_score", "9.0", 10)>>, <<Run("cost", "10**400", 1)>>,
     <<Run("qa_score", "2.0", 10), Run("cost", "9.0", 10)>>}
DetectNext ==
    /\ \/ \E batch \in DetectBatches : TrainCall(batch)
       \/ TrainSteps
       \/ \E items \in ItemBatches : DetectCall(items)
       \/ \E mt \in MetricStrings, s \in Scores, cur \in FloatChoices,
             exp \in FloatChoices : SuggestCall(mt, s, cur, exp)
       \/ OutReturn
    /\ UNCHANGED <<mcVars, vaVars>>

\* the remediation policy, called directly and through detection by a
\* detector trained on QA scores of 9.0
SuggestNext ==
    /\ \/ TrainCall(<<Run("qa_score", "9.0", 10)>>)
       \/ TrainSteps
       \/ DetectCall(<<Item("qa_score", "2.0", "ctx")>>)
       \/ /\ out = NoOut
          /\ \E mt \in MetricStrings, s \in Scores, cur \in TableFloats,
                exp \in TableFloats : SuggestCall(mt, s, cur, exp)
       \/ OutReturn
    /\ UNCHANGED <<mcVars, vaVars>>

\* ============================================================== VideoAgent
\* generate_from_ingredients. Coroutines run one at a time and give way only
\* at an await; an action below is the code between two awaits.
Voiceover == 0
SceneIds == 1..bundle.scenes
CallbackOutcomes(given) == IF given THEN {"returns", "raises"} ELSE {"returns"}

\* lines 281-292 and 373-379: the result with every scene PENDING, one
\* coroutine per scene and one for the voiceover if there is a script
VaCall(n, script, scene_cb, voice_cb) ==
    /\ vpc = "idle"
    /\ bundle' = [scenes |-> n, voiceoverScript |-> script,
                  on_scene_update |-> scene_cb, on_voiceover_update |-> voice_cb]
    /\ result' = [status |-> "generating",
                  scene_results |-> [i \in 1..n |->
                      [status |-> "pending", video_url |-> None, error |-> None]],
                  voiceover_url |-> None, voiceover_error |-> None,
                  total_scenes |-> n, completed_scenes |-> 0, failed_scenes |-> 0]
    /\ tasks' = [k \in (1..n) \cup (IF script THEN {Voiceover} ELSE {}) |-> "created"]
    /\ vpc' = "gather"

\* lines 296-303: GENERATING, the first on_scene_update, then the provider is awaited
SceneStart(i, cb) ==
    /\ vpc = "gather"
    /\ i \in SceneIds
    /\ tasks[i] = "created"
    /\ result' = [result EXCEPT !.scene_results[i].status = "generating"]
    /\ tasks' = [tasks EXCEPT ![i] = IF cb = "raises" THEN "raised" ELSE "awaiting"]
    /\ UNCHANGED <<bundle, vpc>>

\* lines 305-336: the provider's answer, then the second on_scene_update
SceneFinish(i, outcome, cb) ==
    /\ vpc = "gather"
    /\ i \in SceneIds
    /\ tasks[i] = "awaiting"
    /\ result' =
          IF outcome = "url"
          THEN [result EXCEPT !.scene_results[i].status = "completed",
                              !.scene_results[i].video_url = "url",
                              !.completed_scenes = @ + 1]
          ELSE [result EXCEPT !.scene_results[i].status = "failed",
                              !.scene_results[i].error =
                                  IF outcome = "no_url"
                                  THEN "Video generation returned no URL"
                                  ELSE "str(e)",
                              !.failed_scenes = @ + 1]
    /\ tasks' = [tasks EXCEPT ![i] = IF cb = "raises" THEN "raised" ELSE "finished"]
    /\ UNCHANGED <<bundle, vpc>>

\* lines 343-346: the first on_voiceover_update
VoiceStart(cb) ==
    /\ vpc = "gather"
    /\ Voiceover \in DOMAIN tasks
    /\ tasks[Voiceover] = "created"
    /\ tasks' = [tasks EXCEPT ![Voiceover] =
                     IF cb = "raises" THEN "raised" ELSE "awaiting"]
    /\ UNCHANGED <<bundle, result, vpc>>

\* lines 348-371: the provider's answer, then the second on_voiceover_update
VoiceFinish(outcome, cb) ==
    /\ vpc = "gather"
    /\ Voiceover \in DOMAIN tasks
    /\ tasks[Voiceover] = "awaiting"
    /\ result' =
          IF outcome = "audio"
          THEN [result EXCEPT !.voiceover_url = "data:audio/mp3;base64"]
          ELSE [result EXCEPT !.voiceover_error =
                                  IF outcome = "no_audio"
                                  THEN "Voiceover generation returned no audio"
                                  ELSE "str(e)"]
    /\ tasks' = [tasks EXCEPT ![Voiceover] =
                     IF cb = "raises" THEN "raised" ELSE "finished"]
    /\ UNCHANGED <<bundle, vpc>>

\* lines 381-392: gather(return_exceptions=True) returns once every coroutine
\* has finished or raised; then the overall status
Gather ==
    /\ vpc = "gather"
    /\ \A k \in DOMAIN tasks : tasks[k] \in {"finished", "raised"}
    /\ result' = [result EXCEPT !.status =
                      IF result.failed_scenes = 0 /\ result.voiceover_error = None
                      THEN "completed"
                      ELSE IF result.completed_scenes > 0 \/ result.voiceover_url # None
                      THEN "partial"
                      ELSE "failed"]
    /\ vpc' = "returned"
    /\ UNCHANGED <<bundle, tasks>>

VideoNext ==
    /\ \/ \E n \in 0..MaxScenes, script \in BOOLEAN, scene_cb \in BOOLEAN,
             voice_cb \in BOOLEAN : VaCall(n, script, scene_cb, voice_cb)
       \/ \E i \in 1..MaxScenes, cb \in CallbackOutcomes(bundle.on_scene_update) :
             SceneStart(i, cb)
       \/ \E i \in 1..MaxScenes, outcome \in {"url", "no_url", "exception"},
             cb \in CallbackOutcomes(bundle.on_scene_update) :
             SceneFinish(i, outcome, cb)
       \/ \E cb \in CallbackOutcomes(bundle.on_voiceover_update) : VoiceStart(cb)
       \/ \E outcome \in {"audio", "no_audio", "exception"},
             cb \in CallbackOutcomes(bundle.on_voiceover_update) :
             VoiceFinish(outcome, cb)
       \/ Gather
    /\ UNCHANGED <<mcVars, adVars>>

\* ------------------------------------------------------- calculate_baseline
\* line 173: the call of get_agent_metrics, whose first statement sets the cutoff
CbCall(t, a, mt, hours) ==
    /\ FirstIdle(t)
    /\ calls < callLimit
    /\ calls' = calls + 1
    /\ loc' = [loc EXCEPT ![t] = [InitLoc EXCEPT !.agent = a, !.hours = hours,
                                     !.cutoff = now - hours, !.mfilter = mt,
                                     !.caller = "cb"]]
    /\ pc' = [pc EXCEPT ![t] = "gam_lock"]
    /\ UNCHANGED <<metrics, registered, lock, now, hist, called, everCleared, snaps>>

EmptyBaselineUnmarked ==
    [mean |-> Zero, std |-> Zero, min |-> Zero, max |-> Zero, median |-> Zero,
     count |-> 0]
EmptyBaseline ==
    [mean |-> Zero, std |-> Zero, min |-> Zero, max |-> Zero, median |-> Zero,
     count |-> 0, error |-> "No metrics found"]
BaselineStats(values, ts) ==
    [mean |-> Mean(values), std |-> Sqrt(Variance(values)), min |-> RMin(values),
     max |-> RMax(values), median |-> Median(values), count |-> Len(values),
     last_updated |-> ts]

\* lines 175-206
CbCompute(t) ==
    /\ pc[t] = "cb_compute"
    /\ LET ms == loc[t].result
           values == [i \in 1..Len(ms) |-> Rat(ms[i].value, 1)]
       IN loc' = [loc EXCEPT ![t].stats = IF ms = <<>> THEN EmptyBaseline
                                         ELSE BaselineStats(values, now)]
    /\ pc' = [pc EXCEPT ![t] = IF loc[t].caller = "sum_cb" THEN "sum_recent"
                               ELSE "cb_done"]
    /\ UNCHANGED <<metrics, registered, lock, now, hist, called, everCleared, snaps, calls>>

\* ----------------------------------------------- get_metric_types_for_agent
GmtCall(t, a) ==
    /\ FirstIdle(t)
    /\ calls < callLimit
    /\ calls' = calls + 1
    /\ loc' = [loc EXCEPT ![t] = [InitLoc EXCEPT !.agent = a]]
    /\ pc' = [pc EXCEPT ![t] = "gmt_lock"]
    /\ UNCHANGED <<metrics, registered, lock, now, hist, called, everCleared, snaps>>

GmtAcquire(t) ==
    /\ pc[t] = "gmt_lock"
    /\ LockFree(lock)
    /\ lock' = t
    /\ pc' = [pc EXCEPT ![t] = "gmt_body"]
    /\ UNCHANGED <<metrics, registered, now, loc, hist, called, everCleared, snaps, calls>>

\* lines 215-217; list(set) yields the types in an unspecified order
GmtBody(t) ==
    /\ pc[t] = "gmt_body"
    /\ LET records == Lookup(metrics, loc[t].agent)
       IN \E order \in Orders({r.metric_type : r \in Range(records)}) :
             loc' = [loc EXCEPT ![t].types = order, ![t].idx = 1, ![t].summary = <<>>]
    /\ lock' = NoThread
    /\ pc' = [pc EXCEPT ![t] = IF loc[t].caller = "sum" THEN "sum_loop" ELSE "gmt_done"]
    /\ UNCHANGED <<metrics, registered, now, hist, called, everCleared, snaps, calls>>

\* ------------------------------------------------------ get_metrics_summary
\* line 229
SumCall(t, a) ==
    /\ FirstIdle(t)
    /\ calls < callLimit
    /\ calls' = calls + 1
    /\ loc' = [loc EXCEPT ![t] = [InitLoc EXCEPT !.agent = a, !.caller = "sum"]]
    /\ pc' = [pc EXCEPT ![t] = "gmt_lock"]
    /\ UNCHANGED <<metrics, registered, lock, now, hist, called, everCleared, snaps>>

\* lines 232-233: the next metric type, calculate_baseline(agent_slug, metric_type)
SumLoop(t) ==
    /\ pc[t] = "sum_loop"
    /\ IF loc[t].idx <= Len(loc[t].types)
       THEN /\ loc' = [loc EXCEPT ![t].hours = BaselineHours,
                                  ![t].cutoff = now - BaselineHours,
                                  ![t].mfilter = loc[t].types[loc[t].idx],
                                  ![t].caller = "sum_cb"]
            /\ pc' = [pc EXCEPT ![t] = "gam_lock"]
       ELSE /\ loc' = [loc EXCEPT ![t].result = loc[t].summary, ![t].caller = "top"]
            /\ pc' = [pc EXCEPT ![t] = "sum_done"]
    /\ UNCHANGED <<metrics, registered, lock, now, hist, called, everCleared, snaps, calls>>

\* line 234: get_agent_metrics(agent_slug, hours=1, metric_type=metric_type)
SumRecent(t) ==
    /\ pc[t] = "sum_recent"
    /\ loc' = [loc EXCEPT ![t].hours = 1, ![t].cutoff = now - 1,
                           ![t].caller = "sum_recent"]
    /\ pc' = [pc EXCEPT ![t] = "gam_lock"]
    /\ UNCHANGED <<metrics, registered, lock, now, hist, called, everCleared, snaps, calls>>

\* lines 236-240; latest_value is <<v>>, or <<>> for None
SumEntry(t) ==
    /\ pc[t] = "sum_entry"
    /\ LET recent == loc[t].result
           entry == [metric_type |-> loc[t].mfilter,
                     baseline |-> loc[t].stats,
                     recent_count |-> Len(recent),
                     latest_value |-> IF recent # <<>>
                                      THEN <<recent[Len(recent)].value>> ELSE <<>>]
       IN loc' = [loc EXCEPT ![t].summary = Append(@, entry), ![t].idx = @ + 1,
                             ![t].result = <<>>, ![t].stats = Unset]
    /\ pc' = [pc EXCEPT ![t] = "sum_loop"]
    /\ UNCHANGED <<metrics, registered, lock, now, hist, called, everCleared, snaps, calls>>

\* the clock advances between two calls
Tick ==
    /\ \A t \in Threads : pc[t] = "idle"
    /\ calls < callLimit
    /\ calls' = calls + 1
    /\ now' = now + 1
    /\ UNCHANGED <<metrics, registered, lock, pc, loc, hist, called, everCleared, snaps>>

\* ---- one caller at a time, with the clock advancing between the calls
AllIdle == \A t \in Threads : pc[t] = "idle"

SeqStep ==
    \E t \in Threads :
        \/ /\ AllIdle
           /\ \/ RecordCall(t, "a1", "qa_score", 1, "points", None)
              \/ RecordCall(t, "a1", "cost", 2, "usd", "ctx")
              \/ RecordCall(t, "a2", "qa_score", 1, "points", None)
              \/ GamCall(t, "a1", 1, None)
              \/ GamCall(t, "a1", DefaultHours, None)
              \/ GamCall(t, "a1", DefaultHours, "qa_score")
              \/ ClrCall(t, "a1")
              \/ CbCall(t, "a1", "qa_score", BaselineHours)
              \/ Tick
        \/ RmAcquire(t) \/ RmBody(t)
        \/ GamAcquire(t) \/ GamBody(t) \/ GamBuild(t)
        \/ ClrAcquire(t) \/ ClrBody(t)
        \/ CbCompute(t)
        \/ Return(t)

\* what the last get_agent_metrics call was given and returned, kept while
\* nothing is written
SeqHistory ==
    lastGet' =
        IF \E t \in Threads : pc[t] = "gam_done" /\ pc'[t] = "idle"
        THEN LET t == CHOOSE u \in Threads : pc[u] = "gam_done"
             IN [valid |-> TRUE, agent |-> loc[t].agent, hours |-> loc[t].hours,
                 mfilter |-> loc[t].mfilter, cutoff |-> loc[t].cutoff,
                 result |-> loc[t].result]
        ELSE IF metrics' # metrics \/ registered' # registered THEN NoGet
        ELSE lastGet

SeqNext ==
    SeqStep /\ SeqHistory
    /\ UNCHANGED <<callLimit, max_records_per_agent, adVars, vaVars>>

\* ------------------------------------------------------ get_all_agent_slugs
GasCall(t) ==
    /\ FirstIdle(t)
    /\ calls < callLimit
    /\ calls' = calls + 1
    /\ loc' = [loc EXCEPT ![t] = InitLoc]
    /\ pc' = [pc EXCEPT ![t] = "gas_lock"]
    /\ UNCHANGED <<metrics, registered, lock, now, hist, called, everCleared, snaps>>

GasAcquire(t) ==
    /\ pc[t] = "gas_lock"
    /\ LockFree(lock)
    /\ lock' = t
    /\ pc' = [pc EXCEPT ![t] = "gas_body"]
    /\ UNCHANGED <<metrics, registered, now, loc, hist, called, everCleared, snaps, calls>>

\* line 211
GasBody(t) ==
    /\ pc[t] = "gas_body"
    /\ \E order \in Orders(registered) : loc' = [loc EXCEPT ![t].result = order]
    /\ lock' = NoThread
    /\ pc' = [pc EXCEPT ![t] = "gas_done"]
    /\ UNCHANGED <<metrics, registered, now, hist, called, everCleared, snaps, calls>>

\* ---- every operation of the collector, under concurrent callers
LiveCall(t) ==
    \/ RecordCall(t, "a1", "qa_score", 1, "points", None)
    \/ GamCall(t, "a1", DefaultHours, None)
    \/ ClrCall(t, "a1")
    \/ ExpCall(t, None, BaselineHours)
    \/ CbCall(t, "a1", "qa_score", BaselineHours)
    \/ SumCall(t, "a1")
    \/ GmtCall(t, "a1")
    \/ GasCall(t)

\* the steps a thread takes inside an operation it has started
LockSteps(t) ==
    \/ RmAcquire(t) \/ RmBody(t)
    \/ GamAcquire(t) \/ GamBody(t) \/ GamBuild(t)
    \/ ClrAcquire(t) \/ ClrBody(t)
    \/ ExpAcquire(t) \/ ExpBody(t) \/ ExpLoop(t)
    \/ GmtAcquire(t) \/ GmtBody(t)
    \/ SumLoop(t) \/ SumRecent(t) \/ SumEntry(t)
    \/ GasAcquire(t) \/ GasBody(t)
    \/ Return(t)
ThreadStep(t) == LockSteps(t) \/ CbCompute(t)
\* CbCompute seen on the position only: it needs nothing but the position
CbProgress(t) ==
    /\ pc[t] = "cb_compute"
    /\ pc' = [pc EXCEPT ![t] = IF loc[t].caller = "sum_cb" THEN "sum_recent"
                               ELSE "cb_done"]

LiveFrame == UNCHANGED <<callLimit, lastGet, max_records_per_agent, adVars, vaVars>>
LiveNext == (\E t \in Threads : LiveCall(t) \/ ThreadStep(t)) /\ LiveFrame
\* a thread that can take a step of its operation eventually takes one
LiveFairness ==
    \A t \in Threads : WF_vars(LockSteps(t) /\ LiveFrame) /\ WF_pc(CbProgress(t))

\* ---- get_metrics_summary beside writers of the same agent
SumStep ==
    \E t \in Threads :
        \/ RecordCall(t, "a1", "qa_score", 1, "points", None)
        \/ RecordCall(t, "a1", "cost", 2, "usd", None)
        \/ ClrCall(t, "a1")
        \/ SumCall(t, "a1")
        \/ RmAcquire(t) \/ RmBody(t)
        \/ ClrAcquire(t) \/ ClrBody(t)
        \/ GmtAcquire(t) \/ GmtBody(t)
        \/ SumLoop(t) \/ SumRecent(t) \/ SumEntry(t)
        \/ GamAcquire(t) \/ GamBody(t) \/ GamBuild(t)
        \/ CbCompute(t)
        \/ Return(t)

SumNext ==
    SumStep
    /\ UNCHANGED <<callLimit, lastGet, max_records_per_agent, adVars, vaVars>>

\* ---- a caller that writes to what the collector handed out
\* the stored list holds the objects themselves: a write through a reference
\* to one of them is seen in the store
ReplaceRec(m, old, new) ==
    [a \in DOMAIN m |-> [i \in 1..Len(m[a]) |-> IF m[a][i] = old THEN new ELSE m[a][i]]]
\* the stored record a returned dictionary was built from
StoredFor(m, d) ==
    {r \in UNION {Range(m[a]) : a \in DOMAIN m} :
        r.agent_slug = d.agent_slug /\ IsoFormat(r.timestamp) = d.timestamp}

\* lines 96 and 109: record_metric returns the object it appended; the caller
\* assigns to its value field
MutateRecord(t, v) ==
    /\ pc[t] = "rm_done"
    /\ LET old == loc[t].rec
           new == [old EXCEPT !.value = v]
           m2 == ReplaceRec(metrics, old, new)
       IN /\ loc' = [loc EXCEPT ![t].rec = new]
          /\ metrics' = m2
          /\ snaps' = Seen(m2, registered, now)
    /\ pc' = [pc EXCEPT ![t] = "rm_mutated"]
    /\ UNCHANGED <<registered, lock, now, hist, called, everCleared, calls>>

\* lines 144-154: each returned dictionary is new, its "context" is the stored
\* record's own mapping; the caller adds a key to that mapping
MutateContext(t, i) ==
    /\ pc[t] \in {"gam_done", "exp_done"}
    /\ i \in 1..Len(loc[t].result)
    /\ LET d == loc[t].result[i]
           olds == StoredFor(metrics, d)
           m2 == IF olds = {} THEN metrics
                 ELSE LET old == CHOOSE r \in olds : TRUE
                      IN ReplaceRec(metrics, old, [old EXCEPT !.context = "mutated"])
       IN /\ loc' = [loc EXCEPT ![t].result[i].context = "mutated"]
          /\ metrics' = m2
          /\ snaps' = Seen(m2, registered, now)
    /\ pc' = [pc EXCEPT ![t] = IF pc[t] = "gam_done" THEN "gam_mutated"
                               ELSE "exp_mutated"]
    /\ UNCHANGED <<registered, lock, now, hist, called, everCleared, calls>>

\* the caller assigns to a key of a returned dictionary
MutateDict(t, i, v) ==
    /\ pc[t] \in {"gam_done", "exp_done"}
    /\ i \in 1..Len(loc[t].result)
    /\ loc' = [loc EXCEPT ![t].result[i].value = v]
    /\ pc' = [pc EXCEPT ![t] = IF pc[t] = "gam_done" THEN "gam_mutated"
                               ELSE "exp_mutated"]
    /\ UNCHANGED <<metrics, registered, lock, now, hist, called, everCleared, snaps,
                   calls>>

AliasStep ==
    \E t \in Threads :
        \/ /\ AllIdle
           /\ \/ RecordCall(t, "a1", "qa_score", 1, "points", None)
              \/ RecordCall(t, "a2", "cost", 2, "usd", "ctx")
              \/ GamCall(t, "a1", DefaultHours, None)
              \/ ExpCall(t, None, BaselineHours)
        \/ RmAcquire(t) \/ RmBody(t)
        \/ GamAcquire(t) \/ GamBody(t) \/ GamBuild(t)
        \/ ExpAcquire(t) \/ ExpBody(t) \/ ExpLoop(t)
        \/ MutateRecord(t, 7)
        \/ \E i \in 1..MaxRecordsPerAgent : MutateContext(t, i)
        \/ \E i \in 1..MaxRecordsPerAgent : MutateDict(t, i, 7)
        \/ Return(t)

AliasNext ==
    AliasStep
    /\ UNCHANGED <<callLimit, lastGet, max_records_per_agent, adVars, vaVars>>

\* ---- one caller recording a known series and asking for its baseline
ExampleValues == <<10, 20, 30, 40, 50>>
Recorded(a, mt) == {r.value : r \in {x \in called : x.agent_slug = a /\ x.metric_type = mt}}

BaseStep ==
    \E t \in Threads :
        \/ /\ AllIdle
           /\ \/ \E v \in Range(ExampleValues) \ Recorded("a1", "response_time") :
                    RecordCall(t, "a1", "response_time", v, "ms", None)
              \/ RecordCall(t, "a1", "cost", 70, "usd", None)
              \/ RecordCall(t, "a2", "response_time", 60, "ms", None)
              \/ CbCall(t, "a1", "response_time", BaselineHours)
              \/ CbCall(t, "a1", "response_time", 2)
        \/ RmAcquire(t) \/ RmBody(t)
        \/ GamAcquire(t) \/ GamBody(t) \/ GamBuild(t)
        \/ CbCompute(t)
        \/ Return(t)

BaseNext ==
    BaseStep
    /\ UNCHANGED <<callLimit, lastGet, max_records_per_agent, adVars, vaVars>>
BaseInit ==
    MCInitCap(Len(ExampleValues) + 2, Len(ExampleValues) + 1) /\ ADInit /\ VAInit

IdleInit == MCInitWith(0) /\ ADInit /\ VAInit
SpecTrain == IdleInit /\ [][TrainNext]_vars
SpecConc == IdleInit /\ [][ConcNext]_vars
SpecDetect == IdleInit /\ [][DetectNext]_vars
SpecSuggest == IdleInit /\ [][SuggestNext]_vars
\* one call of VideoAgent.generate_from_ingredients
SpecVideo == IdleInit /\ [][VideoNext]_vars

MCInit == MCInitWith(MaxCalls) /\ ADInit /\ VAInit
MCInitLong == MCInitWith(MaxCalls + 1) /\ ADInit /\ VAInit

\* the collector under concurrent callers
SpecMC == MCInit /\ [][MCNext]_vars
\* the same, with one more call allowed
SpecMCLong == MCInitLong /\ [][MCNext]_vars
\* the collector used by one caller
SpecSeq == MCInitLong /\ [][SeqNext]_vars
\* every operation under concurrent callers and a fair scheduler, with as
\* many calls as there are threads
LiveInit == MCInitWith(NumThreads) /\ ADInit /\ VAInit
SpecLive == LiveInit /\ [][LiveNext]_vars /\ LiveFairness
\* get_metrics_summary under concurrent callers
SpecSummary == MCInit /\ [][SumNext]_vars
\* the collector used by one caller that writes to the values it was given
SpecAlias == MCInitLong /\ [][AliasNext]_vars
\* the collector used by one caller on the series 10, 20, 30, 40, 50
SpecBaseline == BaseInit /\ [][BaseNext]_vars

\* ------------------------------------------------------------------ claims
InRecordMetric(t) == pc[t] \in {"rm_lock", "rm_body"}
CalledFor(a) == {r \in called : r.agent_slug = a}
Occurrences(list, r) == Cardinality({i \in 1..Len(list) : list[i] = r})
LastN(list, n) ==
    IF Len(list) > n THEN SubSeq(list, Len(list) - n + 1, Len(list)) ELSE list

\* C1: in every reachable state of the collector, under any interleaving of
\* record_metric, get_agent_metrics, clear_agent_metrics and
\* export_for_training calls, each agent's stored series holds at most
\* max_records_per_agent records.
C1_SeriesBounded ==
    \A a \in DOMAIN metrics : Len(metrics[a]) <= MaxRecordsPerAgent

\* an agent whose series is full after more than max records were appended
C1_Witness ==
    \E a \in DOMAIN metrics :
        /\ Len(hist[a]) > MaxRecordsPerAgent
        /\ Len(metrics[a]) = MaxRecordsPerAgent

\* C2: once max_records_per_agent + k records (k >= 1) were appended for an
\* agent, exactly max_records_per_agent are stored, and they are the most
\* recently appended ones in their insertion order (the oldest k are gone).
C2_FifoEviction ==
    \A a \in Agents :
        Len(hist[a]) > MaxRecordsPerAgent =>
            /\ Len(Lookup(metrics, a)) = MaxRecordsPerAgent
            /\ Lookup(metrics, a) = LastN(hist[a], MaxRecordsPerAgent)

\* the oldest record of an agent was evicted and a newer one is stored
C2_Witness ==
    \E a \in Agents :
        /\ Len(hist[a]) = MaxRecordsPerAgent + 1
        /\ Occurrences(Lookup(metrics, a), hist[a][1]) = 0
        /\ Occurrences(Lookup(metrics, a), hist[a][Len(hist[a])]) = 1

\* C3: concurrent record_metric calls lose no update: once every
\* record_metric call has returned, an agent that was never cleared and for
\* which at most max_records_per_agent records were recorded stores each of
\* them exactly once and is in the known-agents set.
C3_NoLostUpdate ==
    (\A t \in Threads : ~InRecordMetric(t)) =>
        \A a \in Agents \ everCleared :
            (CalledFor(a) # {} /\ Cardinality(CalledFor(a)) <= MaxRecordsPerAgent) =>
                /\ a \in registered
                /\ Len(Lookup(metrics, a)) = Cardinality(CalledFor(a))
                /\ \A r \in CalledFor(a) : Occurrences(Lookup(metrics, a), r) = 1

\* two threads were inside record_metric for the same agent at the same time
\* and both have returned
C3_Witness ==
    \E t1, t2 \in Threads :
        /\ t1 # t2
        /\ pc[t1] = "rm_done" /\ pc[t2] = "rm_done"
        /\ loc[t1].agent = loc[t2].agent
        /\ loc[t1].agent \notin everCleared
        /\ Occurrences(Lookup(metrics, loc[t1].agent), loc[t1].rec) = 1
        /\ Occurrences(Lookup(metrics, loc[t2].agent), loc[t2].rec) = 1

\* what export_for_training(None, hours) returns when it runs on the store
\* state s in one piece, for one order of the known agents
RECURSIVE Flatten(_, _, _)
Flatten(m, order, cutoff) ==
    IF order = <<>> THEN <<>>
    ELSE ToDicts(SelectRecs(Lookup(m, Head(order)), cutoff, None))
            \o Flatten(m, Tail(order), cutoff)

AtomicExports(s, hours) ==
    {Flatten(s.m, order, s.now - hours) : order \in Orders(s.r)}

\* C4: every operation that reads the record lists holds the collector lock
\* for its whole duration, so its result is one atomic snapshot of the store:
\* what export_for_training returns is what the store held at one instant
\* between its call and its return.
C4_ExportIsSnapshot ==
    \A t \in Threads :
        pc[t] = "exp_done" =>
            \E s \in snaps[t] : loc[t].result \in AtomicExports(s, loc[t].hours)

Fresh(p) ==
    /\ p.models = <<>>
    /\ p.baselines = <<>>
    /\ \A mt \in MetricTypes : ~p.is_trained[mt]

\* C5: a reader running beside a retrain of an already trained type sees the
\* fully old or the fully new model and baseline, never the baseline of one
\* training with the model of another.
C5_ReaderSeesWholePair ==
    (rpc = "done" /\ rl.trained) =>
        \A m \in rl.model : \A b \in rl.baseline : b = Baseline(m.fitted_on)

\* C6: between train calls every metric type is either Untrained (is_trained
\* false, no model, get_baseline returns nothing) or Trained (is_trained true,
\* a model and a baseline stored), also after a call in which fitting failed.
C6_TwoStatesPerType ==
    tpc = "idle" =>
        \A mt \in MetricTypes :
            \/ ~IsTrained(mt) /\ Get(models, mt) = {} /\ GetBaseline(mt) = {}
            \/ IsTrained(mt) /\ Get(models, mt) # {} /\ GetBaseline(mt) # {}

C8_NoDowngrade ==
    /\ [](tpc = "done" =>
            \A mt \in MetricTypes :
                (pre.is_trained[mt] /\ Len(tl.grouped[mt]) < MinSamples) =>
                    /\ ~tl.results[mt]
                    /\ IsTrained(mt)
                    /\ Get(models, mt) = Get(pre.models, mt)
                    /\ GetBaseline(mt) = Get(pre.baselines, mt))
    /\ [][\A mt \in MetricTypes : is_trained[mt] => is_trained'[mt]]_vars

\* a retrain with 9 samples of a trained type has returned
C8_Witness ==
    /\ tpc = "done"
    /\ \E mt \in MetricTypes :
          /\ pre.is_trained[mt]
          /\ Len(tl.grouped[mt]) = MinSamples - 1
          /\ ~tl.results[mt]

\* C9: when fitting fails for a type, train reports False for that type only,
\* goes on to the other types, and leaves the failed type's model and
\* baseline as they were before the call.
C9_FitFailureLeavesState ==
    tpc = "done" =>
        /\ DOMAIN tl.results = MetricTypes
        /\ \A mt \in tl.raised :
              /\ ~tl.results[mt]
              /\ Get(models, mt) = Get(pre.models, mt)
              /\ GetBaseline(mt) = Get(pre.baselines, mt)
        /\ \A mt \in MetricTypes \ tl.raised :
              Len(tl.grouped[mt]) >= MinSamples => tl.results[mt]

\* C10: get_suggested_action with anomaly_score > 0 returns NO_ACTION, and so
\* does every AnomalyResult of detect_anomalies whose anomaly_score is
\* positive, whatever the metric type and the current and expected values.
C10_PositiveScoreNoAction ==
    /\ out.op = "suggest" =>
          (RLt(Zero, out.anomaly_score) => out.action = "no_action")
    /\ out.op = "detect" =>
          \A i \in 1..Len(out.results) :
              RLt(Zero, out.results[i].anomaly_score) =>
                  out.results[i].suggested_action = "no_action"

\* a trained type scored positive for a value its policy would act on
C10_Witness ==
    /\ out.op = "detect"
    /\ \E i \in 1..Len(out.results) :
          /\ IsTrained(out.results[i].metric_type)
          /\ out.results[i].metric_type = "qa_score"
          /\ RLt(out.results[i].current_value, Rat(6, 1))
          /\ RLt(Zero, out.results[i].anomaly_score)
          /\ out.results[i].suggested_action = "no_action"

\* C11: for a type with no trained model the result comes from the threshold
\* table: is_anomaly exactly when the value is below the type's min or above
\* its max, anomaly_score -1 when anomalous and +1 otherwise, confidence 0.5;
\* untrained api_failure_rate 0.5 is anomalous with action restart.
C11_UntrainedFallback ==
    out.op = "detect" =>
        \A i \in 1..Len(out.results) :
            LET r == out.results[i]
                th == METRIC_THRESHOLDS(r.metric_type)
            IN ~IsTrained(r.metric_type) =>
                /\ r.is_anomaly = (RLt(r.current_value, th.min)
                                     \/ RLt(th.max, r.current_value))
                /\ r.anomaly_score = (IF r.is_anomaly THEN RNeg(One) ELSE One)
                /\ r.confidence = Rat(1, 2)
                /\ (r.metric_type = "api_failure_rate"
                        /\ r.current_value = Rat(1, 2)) =>
                       (r.is_anomaly /\ r.suggested_action = "restart")

\* untrained api_failure_rate 0.5 was detected, and an untrained qa_score
\* below its min
C11_Witness ==
    /\ out.op = "detect"
    /\ \E i \in 1..Len(out.results) :
          LET r == out.results[i]
          IN /\ ~IsTrained(r.metric_type)
             /\ r.metric_type = "api_failure_rate"
             /\ r.current_value = Rat(1, 2)
             /\ r.suggested_action = "restart"

\* the items of a batch that yield a result, and where the result of item j is
Kept(it) ==
    /\ IsMetricType(it.metric_type) /\ IsFloat(it.value)
    /\ ~PredictRaises(it.metric_type, FloatValue(it.value))
ResultIndex(items, j) == Cardinality({k \in 1..j : Kept(items[k])})

\* C12: for a trained type and a raw score s of the model, anomaly_score is s
\* clamped to [-1, 1], is_anomaly is the model's outlier prediction,
\* expected_value is the stored baseline mean and confidence is
\* min(1, |s| / 0.5); in both paths anomaly_score is in [-1, 1] and
\* confidence in [0, 1].
C12_TrainedPathScores ==
    out.op = "detect" =>
        /\ \A j \in 1..Len(out.items) :
              (Kept(out.items[j]) /\ IsTrained(out.items[j].metric_type)) =>
                  LET r == out.results[ResultIndex(out.items, j)]
                      sc == out.scores[j]
                      c == RMul(RAbs(sc), Rat(2, 1))
                  IN /\ r.anomaly_score =
                            (IF RLt(sc, Rat(-1, 1)) THEN Rat(-1, 1)
                             ELSE IF RLt(One, sc) THEN One ELSE sc)
                     /\ r.is_anomaly = (ModelPredict(sc) = -1)
                     /\ r.expected_value = baselines[r.metric_type].mean
                     /\ r.confidence = (IF RLt(One, c) THEN One ELSE c)
                     /\ (~RLt(RAbs(sc), Rat(1, 2))) => r.confidence = One
        /\ \A i \in 1..Len(out.results) :
              LET r == out.results[i]
              IN /\ ~RLt(r.anomaly_score, Rat(-1, 1)) /\ ~RLt(One, r.anomaly_score)
                 /\ ~RLt(r.confidence, Zero) /\ ~RLt(One, r.confidence)

\* a trained type was scored above 1 and the score was clamped
C12_Witness ==
    /\ out.op = "detect"
    /\ \E j \in 1..Len(out.items) :
          /\ Kept(out.items[j]) /\ IsTrained(out.items[j].metric_type)
          /\ out.scores[j] = Rat(3, 2)
          /\ out.results[ResultIndex(out.items, j)].anomaly_score = One
          /\ out.results[ResultIndex(out.items, j)].confidence = One

\* an item whose metric type is one of the five and whose value is a number
WellFormedItem(it) ==
    it.metric_type \in MetricTypes /\ it.value \in NumericStrings \cup HugeInts

\* C13: detect_anomalies never raises because of an item of its batch, and
\* returns exactly one result per well-formed item, in the input order, each
\* with that item's metric type, value and context.
C13_OneResultPerWellFormedItem ==
    /\ out.op # "detect_raised"
    /\ out.op = "detect" =>
          LET wf == SelectSeq(out.items, WellFormedItem)
          IN /\ Len(out.results) = Len(wf)
             /\ \A i \in 1..Len(wf) :
                   /\ out.results[i].metric_type = wf[i].metric_type
                   /\ out.results[i].current_value = FloatValue(wf[i].value)
                   /\ out.results[i].context = wf[i].context

\* the number of records of a batch that name the type mt and carry a number
RECURSIVE WellFormedCount(_, _)
WellFormedCount(batch, mt) ==
    IF batch = <<>> THEN 0
    ELSE (IF Head(batch).metric_type = mt /\ Head(batch).value \in NumericStrings
          THEN Head(batch).n ELSE 0) + WellFormedCount(Tail(batch), mt)

\* C14: train drops malformed records one by one: a record with an unknown
\* metric type or a non-numeric value counts for no type, a type is trained
\* only on 10 or more well-formed records of its own, and no record makes
\* train raise.
C14_MalformedRecordsDropped ==
    /\ tpc # "raised"
    /\ tpc = "done" =>
          \A mt \in MetricTypes :
              /\ Len(tl.grouped[mt]) = WellFormedCount(tl.batch, mt)
              /\ (mt \in DOMAIN tl.results /\ tl.results[mt]) =>
                    WellFormedCount(tl.batch, mt) >= MinSamples

\* the dict d carries the fields of the record r
SameFields(d, r) ==
    /\ d.agent_slug = r.agent_slug /\ d.metric_type = r.metric_type
    /\ d.value = r.value /\ d.unit = r.unit /\ d.context = r.context

\* C15: a record produced by record_metric that is still stored (not evicted,
\* not cleared) is returned, with the same agent, metric type, value, unit and
\* context, by the next get_agent_metrics call for its agent whose window
\* covers its timestamp.
C15_RoundTrip ==
    \A t \in Threads :
        pc[t] = "gam_done" =>
            \A r \in Range(Lookup(metrics, loc[t].agent)) :
                (/\ r \in called
                 /\ r.timestamp >= now - loc[t].hours
                 /\ loc[t].mfilter \in {None, r.metric_type}) =>
                    \E i \in 1..Len(loc[t].result) : SameFields(loc[t].result[i], r)

\* a get_agent_metrics call returned a record that was recorded with a context
\* and one recorded without
C15_Witness ==
    \E t \in Threads :
        /\ pc[t] = "gam_done"
        /\ \E i, j \in 1..Len(loc[t].result) :
              /\ loc[t].result[i].context = "ctx" /\ loc[t].result[i].unit = "usd"
              /\ loc[t].result[j].context = EmptyDict

\* thread t has the result of a get_agent_metrics call with the arguments of
\* the call before it, and nothing was written between the two
RepeatedGet(t) ==
    /\ pc[t] = "gam_done"
    /\ lastGet.valid
    /\ lastGet.agent = loc[t].agent
    /\ lastGet.hours = loc[t].hours
    /\ lastGet.mfilter = loc[t].mfilter

\* C16, as stated: two get_agent_metrics calls with identical arguments and no
\* write between them return equal results.
C16_Idempotent ==
    \A t \in Threads : RepeatedGet(t) => loc[t].result = lastGet.result

\* C16, amended: they return equal results when, besides, no stored record of
\* the agent has left the window between the two calls (the window ends at the
\* time of each call, and the clock advances between them).
C16_IdempotentWhileWindowHolds ==
    \A t \in Threads :
        (/\ RepeatedGet(t)
         /\ \A r \in Range(Lookup(metrics, loc[t].agent)) :
               (r.timestamp >= lastGet.cutoff) = (r.timestamp >= now - loc[t].hours))
        => loc[t].result = lastGet.result

\* a repeated call at a later time returned the same non-empty result
C16_Witness ==
    \E t \in Threads :
        /\ RepeatedGet(t)
        /\ lastGet.cutoff < now - loc[t].hours
        /\ loc[t].result # <<>>
        /\ loc[t].result = lastGet.result

\* C17: after N <= max_records_per_agent observations were recorded for an
\* agent (of any metric types, with writes to other agents in between),
\* get_agent_metrics for it with a window covering them all returns exactly
\* those N records, in insertion order.
C17_AllRecordsInOrder ==
    \A t \in Threads :
        LET h == hist[loc[t].agent]
        IN (/\ pc[t] = "gam_done"
            /\ loc[t].mfilter = None
            /\ Len(h) <= MaxRecordsPerAgent
            /\ \A i \in 1..Len(h) : h[i].timestamp >= now - loc[t].hours) =>
                /\ Len(loc[t].result) = Len(h)
                /\ \A i \in 1..Len(h) :
                      /\ SameFields(loc[t].result[i], h[i])
                      /\ loc[t].result[i].timestamp = IsoFormat(h[i].timestamp)

\* max_records_per_agent records of two metric types were recorded for a1, and
\* one for a2, and get_agent_metrics returned a1's
C17_Witness ==
    \E t \in Threads :
        /\ pc[t] = "gam_done"
        /\ loc[t].agent = "a1"
        /\ loc[t].mfilter = None
        /\ "a2" \in registered
        /\ Len(hist["a1"]) = MaxRecordsPerAgent
        /\ Len(loc[t].result) = MaxRecordsPerAgent
        /\ loc[t].result[1].metric_type # loc[t].result[2].metric_type

\* this step is taken inside get_agent_metrics
GetStep ==
    \E t \in Threads :
        /\ pc'[t] # pc[t]
        /\ pc'[t] \in {"gam_lock", "gam_body", "gam_build", "gam_done"}

\* C18: get_agent_metrics is a pure read: none of its steps changes the record
\* lists or the known-agents set, and for an agent with no records (never
\* recorded, or cleared) it returns an empty list, creates no entry and does
\* not register the agent.
C18_PureRead ==
    /\ [][GetStep => (metrics' = metrics /\ registered' = registered)]_vars
    /\ [](\A t \in Threads :
            (pc[t] = "gam_done" /\ hist[loc[t].agent] = <<>>) =>
                /\ loc[t].result = <<>>
                /\ loc[t].agent \notin DOMAIN metrics
                /\ loc[t].agent \notin registered)

\* get_agent_metrics returned for an agent that was recorded and then cleared
C18_Witness ==
    \E t \in Threads :
        /\ pc[t] = "gam_done"
        /\ loc[t].agent \in everCleared
        /\ hist[loc[t].agent] = <<>>
        /\ \E r \in called : r.agent_slug = loc[t].agent
        /\ loc[t].result = <<>>

\* C19: clear_agent_metrics(A) removes A's records and A from the known
\* agents, returns the number of records A had just before (0 for an unknown
\* agent) and leaves every other agent's records and registration as they
\* were; afterwards get_agent_metrics(A) is empty until A is recorded again.
C19_ClearRemovesOnlyThatAgent ==
    /\ [][\A t \in Threads :
            (pc[t] = "clr_body" /\ pc'[t] = "clr_done") =>
                LET a == loc[t].agent
                IN /\ a \notin DOMAIN metrics'
                   /\ a \notin registered'
                   /\ loc'[t].count = Len(Lookup(metrics, a))
                   /\ \A b \in Agents \ {a} :
                         /\ (b \in DOMAIN metrics') = (b \in DOMAIN metrics)
                         /\ Lookup(metrics', b) = Lookup(metrics, b)
                         /\ (b \in registered') = (b \in registered)]_vars
    /\ [](\A t \in Threads :
            (/\ pc[t] = "gam_done"
             /\ loc[t].agent \in everCleared
             /\ hist[loc[t].agent] = <<>>) => loc[t].result = <<>>)

\* a1 was cleared of two records while a2 kept its record
C19_Witness ==
    \E t \in Threads :
        /\ pc[t] = "clr_done"
        /\ loc[t].agent = "a1"
        /\ loc[t].count >= 1
        /\ Lookup(metrics, "a2") # <<>>
        /\ "a2" \in registered

\* C20: calculate_baseline for an (agent, metric type) pair with no matching
\* record in the window returns count 0, with mean, std, min, max and median
\* all 0.0 and an explicit error marker, and does not raise.
C20_EmptyBaselineIsMarked ==
    \A t \in Threads :
        (pc[t] = "cb_done" /\ loc[t].result = <<>>) =>
            LET st == loc[t].stats
            IN /\ st.count = 0
               /\ st.mean = Zero /\ st.std = Zero /\ st.min = Zero
               /\ st.max = Zero /\ st.median = Zero
               /\ "error" \in DOMAIN st
               /\ st.error = "No metrics found"

\* a baseline was asked for qa_score while a1 holds only records of another type
C20_Witness ==
    \E t \in Threads :
        /\ pc[t] = "cb_done"
        /\ loc[t].result = <<>>
        /\ Lookup(metrics, loc[t].agent) # <<>>

\* the stored records of the call's agent that have its type and lie in its window
InWindow(t) ==
    LET recs == Lookup(metrics, loc[t].agent)
    IN {i \in 1..Len(recs) : /\ recs[i].metric_type = loc[t].mfilter
                             /\ recs[i].timestamp >= loc[t].cutoff}
RECURSIVE SumAt(_, _)
SumAt(recs, I) ==
    IF I = {} THEN 0
    ELSE LET i == CHOOSE j \in I : TRUE IN recs[i].value + SumAt(recs, I \ {i})
\* x is the k-th smallest of the values at I
IsKthSmallest(recs, I, x, k) ==
    /\ Cardinality({i \in I : recs[i].value < x}) < k
    /\ Cardinality({i \in I : recs[i].value <= x}) >= k

\* C21: for a non-empty window calculate_baseline(A, T) reports the number of
\* A's in-window records of type T as count, the smallest and largest of their
\* values as min and max, their arithmetic mean and their median, computed
\* from those records only; for 10, 20, 30, 40, 50 it reports mean 30,
\* median 30, min 10, max 50, count 5.
C21_BaselineStatistics ==
    \A t \in Threads :
        (pc[t] = "cb_done" /\ InWindow(t) # {}) =>
            LET recs == Lookup(metrics, loc[t].agent)
                I == InWindow(t)
                n == Cardinality(I)
                st == loc[t].stats
            IN /\ st.count = n
               /\ \E i \in I : /\ st.min = Rat(recs[i].value, 1)
                                /\ \A j \in I : recs[i].value <= recs[j].value
               /\ \E i \in I : /\ st.max = Rat(recs[i].value, 1)
                                /\ \A j \in I : recs[i].value >= recs[j].value
               /\ RMul(st.mean, Rat(n, 1)) = Rat(SumAt(recs, I), 1)
               /\ IF n % 2 = 1
                  THEN \E i \in I :
                          /\ IsKthSmallest(recs, I, recs[i].value, (n + 1) \div 2)
                          /\ st.median = Rat(recs[i].value, 1)
                  ELSE \E i, j \in I :
                          /\ IsKthSmallest(recs, I, recs[i].value, n \div 2)
                          /\ IsKthSmallest(recs, I, recs[j].value, n \div 2 + 1)
                          /\ RMul(st.median, Rat(2, 1))
                               = Rat(recs[i].value + recs[j].value, 1)
               /\ ({recs[i].value : i \in I} = Range(ExampleValues) /\ n = 5) =>
                      /\ st.mean = Rat(30, 1) /\ st.median = Rat(30, 1)
                      /\ st.min = Rat(10, 1) /\ st.max = Rat(50, 1)
                      /\ st.count = 5

\* the baseline of the whole series, asked for while a1 also holds a cost record
C21_Witness ==
    \E t \in Threads :
        /\ pc[t] = "cb_done"
        /\ {Lookup(metrics, "a1")[i].value : i \in InWindow(t)} = Range(ExampleValues)
        /\ Len(Lookup(metrics, "a1")) > Len(ExampleValues)
        /\ loc[t].stats.count = Len(ExampleValues)

\* ---- the remediation table, as the comparisons of Python floats
\* v > k * e, v < k * e, v <= k * e
Above(v, k, e) == RLt(RMul(e, k), v)
Below(v, k, e) == RLt(v, RMul(e, k))
AtMost(v, k, e) == ~IsNaN(v) /\ ~IsNaN(e) /\ ~Above(v, k, e)
\* a direct get_suggested_action call for type mt with anomaly_score <= 0
SuggestedFor(mt) ==
    /\ out # NoOut
    /\ out.op = "suggest"
    /\ out.metric_type = mt
    /\ ~RLt(Zero, out.anomaly_score)

\* C24 as stated: for RESPONSE_TIME and anomaly_score <= 0 the action is
\* SCALE_UP when value > 3 x expected, INVESTIGATE when 1.5 x expected < value
\* <= 3 x expected, SCALE_DOWN when value < 0.3 x expected and value < 100,
\* and NO_ACTION otherwise, for every value and every expected value.
C24_ResponseTimeTable ==
    SuggestedFor("response_time") =>
        LET v == out.current_value
            e == out.expected_value
            up == Above(v, Rat(3, 1), e)
            inv == Above(v, Rat(3, 2), e) /\ AtMost(v, Rat(3, 1), e)
            down == Below(v, Rat(3, 10), e) /\ RLt(v, Rat(100, 1))
        IN /\ up => out.action = "scale_up"
           /\ inv => out.action = "investigate"
           /\ down => out.action = "scale_down"
           /\ (~up /\ ~inv /\ ~down) => out.action = "no_action"

\* C24 amended: the same table, where SCALE_DOWN also needs value <= 3 x
\* expected: for a negative expected value a value can be above 3 x expected
\* and below 0.3 x expected at once, and the SCALE_UP rule is tested first.
C24_ResponseTimeTableInOrder ==
    SuggestedFor("response_time") =>
        LET v == out.current_value
            e == out.expected_value
            up == Above(v, Rat(3, 1), e)
            inv == Above(v, Rat(3, 2), e) /\ AtMost(v, Rat(3, 1), e)
            down == /\ Below(v, Rat(3, 10), e) /\ RLt(v, Rat(100, 1))
                    /\ ~Above(v, Rat(3, 1), e)
        IN /\ up => out.action = "scale_up"
           /\ inv => out.action = "investigate"
           /\ down => out.action = "scale_down"
           /\ (~up /\ ~inv /\ ~down) => out.action = "no_action"

\* value -20 against expected -10: above 3 x expected and below 0.3 x expected
C24_Witness ==
    /\ SuggestedFor("response_time")
    /\ out.expected_value = Rat(-10, 1)
    /\ out.current_value = Rat(-20, 1)
    /\ out.action = "scale_up"

\* C25: for QA_SCORE and anomaly_score <= 0 the action is RETRAIN when value
\* < 6.0, INVESTIGATE when 6.0 <= value < 7.0 and NO_ACTION otherwise, whatever
\* the expected value; a detected QA_SCORE anomaly at 2.0 is given RETRAIN.
C25_QaScoreTable ==
    /\ SuggestedFor("qa_score") =>
           LET v == out.current_value
               low == RLt(v, Rat(6, 1))
               mid == ~IsNaN(v) /\ ~RLt(v, Rat(6, 1)) /\ RLt(v, Rat(7, 1))
           IN /\ low => out.action = "retrain"
              /\ mid => out.action = "investigate"
              /\ (~low /\ ~mid) => out.action = "no_action"
    /\ (out # NoOut /\ out.op = "detect") =>
           \A i \in 1..Len(out.results) :
               LET r == out.results[i]
               IN (/\ r.metric_type = "qa_score"
                   /\ r.current_value = Rat(2, 1)
                   /\ r.is_anomaly) => r.suggested_action = "retrain"

\* the detector trained on QA scores of 9.0 reports 2.0 as an anomaly
C25_Witness ==
    /\ out # NoOut
    /\ out.op = "detect"
    /\ is_trained["qa_score"]
    /\ \E i \in 1..Len(out.results) :
           /\ out.results[i].metric_type = "qa_score"
           /\ out.results[i].current_value = Rat(2, 1)
           /\ out.results[i].is_anomaly
           /\ out.results[i].suggested_action = "retrain"

\* C26: for API_FAILURE_RATE and anomaly_score <= 0 the action is RESTART when
\* value > 0.3, INVESTIGATE when 0.15 < value <= 0.3 and NO_ACTION otherwise,
\* whatever the expected value.
C26_ApiFailureTable ==
    SuggestedFor("api_failure_rate") =>
        LET v == out.current_value
            high == RLt(Rat(3, 10), v)
            mid == RLt(Rat(15, 100), v) /\ ~RLt(Rat(3, 10), v)
        IN /\ high => out.action = "restart"
           /\ mid => out.action = "investigate"
           /\ (~high /\ ~mid) => out.action = "no_action"

\* a failure rate of exactly 0.3 is investigated, not restarted
C26_Witness ==
    /\ SuggestedFor("api_failure_rate")
    /\ out.current_value = Rat(3, 10)
    /\ out.expected_value = Rat(9, 1)
    /\ out.action = "investigate"

\* C27 as stated: for anomaly_score <= 0, COST gives INVESTIGATE when value >
\* 2 x expected, SCALE_DOWN when value < 0.3 x expected, else NO_ACTION;
\* THROUGHPUT gives SCALE_UP when value < 0.5 x expected, INVESTIGATE when
\* value > 2 x expected, else NO_ACTION; a string that is none of the five
\* metric types gives INVESTIGATE.
C27_RelativeTables ==
    /\ SuggestedFor("cost") =>
           LET v == out.current_value
               e == out.expected_value
               inv == Above(v, Rat(2, 1), e)
               down == Below(v, Rat(3, 10), e)
           IN /\ inv => out.action = "investigate"
              /\ down => out.action = "scale_down"
              /\ (~inv /\ ~down) => out.action = "no_action"
    /\ SuggestedFor("throughput") =>
           LET v == out.current_value
               e == out.expected_value
               up == Below(v, Rat(1, 2), e)
               inv == Above(v, Rat(2, 1), e)
           IN /\ up => out.action = "scale_up"
              /\ inv => out.action = "investigate"
              /\ (~up /\ ~inv) => out.action = "no_action"
    /\ \A mt \in MetricStrings \ MetricTypes :
           SuggestedFor(mt) => out.action = "investigate"

\* C27 amended: the rules of each type are tested in the order given and the
\* first that matches decides; for a negative expected value a value can
\* match both rules of COST, or both rules of THROUGHPUT.
C27_RelativeTablesInOrder ==
    /\ SuggestedFor("cost") =>
           LET v == out.current_value
               e == out.expected_value
               inv == Above(v, Rat(2, 1), e)
               down == ~inv /\ Below(v, Rat(3, 10), e)
           IN /\ inv => out.action = "investigate"
              /\ down => out.action = "scale_down"
              /\ (~inv /\ ~down) => out.action = "no_action"
    /\ SuggestedFor("throughput") =>
           LET v == out.current_value
               e == out.expected_value
               up == Below(v, Rat(1, 2), e)
               inv == ~up /\ Above(v, Rat(2, 1), e)
           IN /\ up => out.action = "scale_up"
              /\ inv => out.action = "investigate"
              /\ (~up /\ ~inv) => out.action = "no_action"
    /\ \A mt \in MetricStrings \ MetricTypes :
           SuggestedFor(mt) => out.action = "investigate"

\* throughput -10 against expected -10: below 0.5 x expected and above 2 x expected
C27_Witness ==
    /\ SuggestedFor("throughput")
    /\ out.expected_value = Rat(-10, 1)
    /\ out.current_value = Rat(-10, 1)
    /\ out.action = "scale_up"

\* C28: every result of detect_anomalies with is_anomaly = False has
\* suggested_action = NO_ACTION, on the threshold path of an untrained type
\* and on the model path of a trained one, a decision score of exactly 0
\* included.
C28_NoActionWithoutAnomaly ==
    (out # NoOut /\ out.op = "detect") =>
        \A i \in 1..Len(out.results) :
            ~out.results[i].is_anomaly => out.results[i].suggested_action = "no_action"

\* a caller writes to a value the collector returned
CallerWrites(t) ==
    \/ pc[t] = "rm_done" /\ pc'[t] = "rm_mutated"
    \/ pc[t] = "gam_done" /\ pc'[t] = "gam_mutated"
    \/ pc[t] = "exp_done" /\ pc'[t] = "exp_mutated"

\* C22: what the collector hands out are snapshots: a write to the object
\* record_metric returned, or to a dictionary (or its context mapping) that
\* get_agent_metrics or export_for_training returned, does not change what a
\* later get_agent_metrics returns for any agent.
C22_ReturnedValuesAreSnapshots ==
    [][\A t \in Threads :
          CallerWrites(t) =>
              \A a \in Agents :
                  ToDicts(Lookup(metrics', a)) = ToDicts(Lookup(metrics, a))]_vars

\* C29: every entry of a mapping returned by get_metrics_summary(A), also
\* while other threads record or clear A, is consistent in itself:
\* recent_count (last hour) is at most the baseline count (last 168 hours),
\* latest_value is present whenever recent_count > 0, and the entry never has
\* the empty 'No metrics found' baseline together with recent_count > 0.
C29_SummaryEntriesConsistent ==
    \A t \in Threads :
        pc[t] = "sum_done" =>
            \A i \in 1..Len(loc[t].result) :
                LET e == loc[t].result[i]
                IN /\ e.recent_count <= e.baseline.count
                   /\ e.recent_count > 0 => e.latest_value # <<>>
                   /\ ~("error" \in DOMAIN e.baseline /\ e.recent_count > 0)

\* positions inside a "with self._lock" block
InsideLock == {"rm_body", "gam_body", "clr_body", "exp_body", "gmt_body", "gas_body"}

\* C23: no operation of the collector blocks for ever: under fair scheduling
\* every started operation returns, the lock is held only inside a with-block
\* (so it is released on every path and never asked for by its holder), the
\* composite calculate_baseline, get_metrics_summary and export_for_training
\* included.
C23_NoOperationBlocks ==
    /\ [](\A t \in Threads : lock = t => pc[t] \in InsideLock)
    /\ \A t \in Threads : (pc[t] # "idle") ~> (pc[t] = "idle")

\* one thread is inside export_for_training's loop while the other holds the lock
C23_Witness ==
    \E t, u \in Threads :
        /\ pc[t] = "gam_lock"
        /\ loc[t].caller \in {"exp", "sum_cb", "sum_recent", "cb"}
        /\ lock = u
        /\ u # t

\* C30: when generate_from_ingredients returns, every scene result is
\* COMPLETED or FAILED, completed_scenes + failed_scenes = total_scenes
\* (whatever failed or was raised by a provider or a callback), and the
\* overall status is "completed" only if every scene is COMPLETED and there
\* is no voiceover error.
C30_EveryScenePutToRest ==
    vpc = "returned" =>
        /\ \A i \in SceneIds :
               result.scene_results[i].status \in {"completed", "failed"}
        /\ result.completed_scenes + result.failed_scenes = result.total_scenes
        /\ result.status = "completed" =>
               /\ \A i \in SceneIds : result.scene_results[i].status = "completed"
               /\ result.voiceover_error = None

====
